---- MODULE Spec2Model ----
(***************************************************************************)
(* A model of the two long-running consumers of the Shodan CLI             *)
(* (src/shodan/__main__.py):                                               *)
(*   - scan_submit: submit a scan, subscribe to a temporary alert, collect *)
(*     de-duplicated banners until the scan is DONE or the wait elapsed,   *)
(*     report, and always delete the alert;                                *)
(*   - stream: the reconnecting consumer with a record limit and a         *)
(*     day-rotated output file.                                            *)
(* Spec is the scan_submit machine, StreamSpec the stream machine.         *)
(* InternetSpec is the machine of scan_internet, the wait loop that ends   *)
(* on the scan's status alone.                                             *)
(***************************************************************************)
EXTENDS Integers, Sequences, FiniteSets, TLC

VARIABLES
    \* ---- scan_submit ----
    pc,           \* position of scan_submit's control flow
    wait,         \* --wait option
    scan,         \* "None" or the id api.scan returned
    alert,        \* "None" or the id of the created alert
    done,         \* the loop's done flag
    elapsed,      \* time.time() - scan_start
    cache,        \* dedup cache: the set of cache_key strings
    hosts,        \* hosts[ip][port] = banner
    status,       \* scan['status'] as last returned by api.scan_status ("None" before)
    outcome,      \* how the command ends: "none" while running
    \* the query service and the bookkeeping of calls made to it
    svcStatus,    \* the scan's status on the service
    doneSince,    \* elapsed when the service turned DONE (-1 before)
    calls,        \* counts of calls: delete (delete_alert), open (channel opens), read (banners
                  \* taken), noip (banners taken that carried no address), poll837 (polls of
                  \* the record loop), poll858 (polls of the APIError handler)
    firstSeen,    \* for each (address, port) identity taken from the channel, the first
                  \* banner that carried it
    fout,         \* TRUE when the report of scan_submit had an output file (--filename)
    message,      \* what the report printed: "none" before, "table", or "no_results"
    shown,        \* the (address, port) rows the report printed, in order
    saved,        \* the banners written to the output file, in order
    \* ---- stream ----
    spc,          \* position of stream's control flow
    limit,        \* --limit option
    datadir,      \* TRUE when --datadir is given
    quiet,        \* --quiet option
    counter,      \* records counted against the limit
    quit,         \* the loop's quit flag
    last_time,    \* day key of the file last opened
    sfout,        \* stream's fout: the day its handle was opened for, and whether it is
                  \* still open (day 0: no handle)
    stream,       \* the channel object: "live", or "exhausted" once its iteration ended
    today,        \* timestr(): the current UTC day
    files,        \* files[day]: the records appended to {day}.json.gz
    printed,      \* the records echoed to stdout
    taken,        \* number of records taken from the channel so far
    lost,         \* the records whose write (or file rotation) raised
    unprinted,    \* the records whose row raised while it was being built or echoed
    faults,       \* number of exceptions raised in the loop so far
    soutcome,     \* how the stream command ends: "none" while running
    opens,        \* number of channel objects _create_stream has made
    raised,       \* the exception the loop's handlers caught last ("none" before)
    handles,      \* the handles open_streaming_file returned, in order: the day each
                  \* was opened for and whether it is still open
    recdays,      \* the UTC days on which a record went on to the sink (was taken and
                  \* passed the limit check)
    stamp,        \* the day of the timestamp field of the record taken last (0 before)
    compresslevel,  \* stream's --compresslevel option
    levels,       \* the compression level each sink file was opened with, in order
    \* ---- the spinner and its owner (scan_submit, convert) ----
    cmd,                  \* the command that owns the spinner
    verbose,              \* scan_submit's --verbose option
    mpc,                  \* position of the owner's main flow
    finished_event,       \* TRUE once finished_event.set() was called
    progress_bar_thread,  \* position of the thread running async_spinner
    joined,               \* TRUE once progress_bar_thread.join() has returned
    term,                 \* the writes made to the terminal, in order: who wrote, and
                          \* whether the thread was started, the event set and the
                          \* thread joined at that moment
    \* ---- scan_internet ----
    inet          \* the state of scan_internet, a record:
                  \*   pc        position of the command's flow
                  \*   official  TRUE when the requested port is in api.ports()
                  \*   done      the done flag
                  \*   status    scan['status'] as the last status poll gave it
                  \*   counter   the counter of records taken
                  \*   calls     calls made: channels opened, status polls per handler
                  \*   svc       index in Statuses of the status the service holds
                  \*   outcome   how the command ended

levelVars == <<compresslevel, levels>>
reportVars == <<fout, message, shown, saved>>
scanVars == <<pc, wait, scan, alert, done, elapsed, cache, hosts, status, outcome,
              svcStatus, doneSince, calls, firstSeen, reportVars>>
streamVars == <<spc, limit, datadir, quiet, counter, quit, last_time, sfout, stream,
                today, files, printed, taken, lost, unprinted, faults, soutcome,
                opens, raised, handles, recdays, stamp, levelVars>>
spinVars == <<cmd, verbose, mpc, finished_event, progress_bar_thread, joined, term>>
internetVars == <<inet>>
vars == <<scanVars, streamVars, spinVars, internetVars>>

-----------------------------------------------------------------------------
(* Bounds of the model *)
MaxEvents == 3      \* channel events (banners, errors, clean ends) per scan session
MaxTaken == 5       \* records taken from the channel per run of stream
MaxFaults == 2      \* channel and sink failures injected per run of stream
MaxDay == 3         \* UTC days a run of stream spans
MaxWrites == 3      \* terminal writes made while the spinner has not been told to stop
MaxSignals == 4     \* records taken plus channels opened per run of scan_internet

(* Program constants *)
CheckInterval == 60 \* "if time.time() - scan_start >= 60"

\* The --wait values explored: below zero, zero, the default, a long wait.
WaitValues == {-1, 0, 20, 300}
\* The instants at which something may happen, in session seconds.
TimePoints == {0, 20, 59, 60, 130, 300}

Statuses == <<"SUBMITTED", "RUNNING", "DONE">>

-----------------------------------------------------------------------------
(* Banners: mappings with optional ip / ipv6 fields.  The IPv4 address is 1, *)
(* the IPv6 address is 3 (an IPv6 banner carries no ip field).              *)
Ports == {80, 443}
Payloads == {"a", "b"}
BannerSet ==
    UNION { { [ip |-> i, port |-> p, data |-> d] : i \in {1}, p \in Ports, d \in Payloads },
            { [ipv6 |-> i, port |-> p, data |-> d] : i \in {3}, p \in Ports, d \in Payloads },
            { [port |-> p, data |-> d] : p \in Ports, d \in Payloads } }

\* banner.get('ip', banner.get('ipv6', None)); 0 stands for None
BannerIp(b) ==
    IF "ip" \in DOMAIN b THEN b["ip"]
    ELSE IF "ipv6" \in DOMAIN b THEN b["ipv6"] ELSE 0

\* Variant: no record is skipped
TruthyAlways(v) == TRUE

\* Python truthiness of the looked-up address ("if not ip: continue")
Truthy(v) == v # 0

\* str() of a natural number, as a sequence of characters
DigitChar == <<"0", "1", "2", "3", "4", "5", "6", "7", "8", "9">>
RECURSIVE Str(_)
Str(n) == IF n < 10 THEN <<DigitChar[n + 1]>> ELSE Str(n \div 10) \o <<DigitChar[(n % 10) + 1]>>

\* '{}:{}'.format(ip, banner['port'])
CacheKey(ip, port) == Str(ip) \o <<":">> \o Str(port)

\* helpers.get_ip(banner) has an address to return
HasAddress(b) == "ipv6" \in DOMAIN b \/ "ip" \in DOMAIN b

\* helpers.get_ip(banner): the host identity (the ipv6 or ip address) of a banner
get_ip(b) == IF "ipv6" \in DOMAIN b THEN b["ipv6"] ELSE b["ip"]

-----------------------------------------------------------------------------
Bump(c, k) == [c EXCEPT ![k] = @ + 1]

\* Channel events so far, while iterating: the banners taken plus the channel
\* failures and clean ends, each of which was followed by one reopening.
Events == calls.read + (calls.open - 1)

ScanInit ==
    /\ pc = "start"
    /\ wait \in WaitValues
    /\ scan = "None"
    /\ alert = "None"
    /\ done = FALSE
    /\ elapsed = 0
    /\ cache = {}
    /\ hosts = <<>>
    /\ status = "None"
    /\ outcome = "none"
    /\ svcStatus = 1
    /\ doneSince = -1
    /\ calls = [delete |-> 0, open |-> 0, read |-> 0, noip |-> 0,
                poll837 |-> 0, poll858 |-> 0]
    /\ firstSeen = <<>>
    /\ fout = FALSE
    /\ message = "none"
    /\ shown = <<>>
    /\ saved = <<>>

\* hosts[h][p] = b on a defaultdict(dict)
PutHost(hs, h, p, b) ==
    LET old == IF h \in DOMAIN hs THEN hs[h] ELSE <<>>
    IN  [x \in DOMAIN hs \cup {h} |->
            IF x = h THEN [q \in DOMAIN old \cup {p} |-> IF q = p THEN b ELSE old[q]]
            ELSE hs[x]]

\* The (address, port) identities held by the result table
HostKeys(hs) == { <<h, p>> \in (DOMAIN hs) \X Ports : p \in DOMAIN hs[h] }

\* Variant: the banner is stored without consulting the cache
DedupHostsAlways(hs, ch, key, b) == PutHost(hs, get_ip(b), b["port"], b)

\* "if cache_key not in cache: hosts[helpers.get_ip(banner)][banner['port']] = banner"
DedupHosts(hs, ch, key, b) ==
    IF key \notin ch THEN PutHost(hs, get_ip(b), b["port"], b) ELSE hs

\* Variant: the identity is never marked
DedupCacheForgets(ch, key) == ch

\* "if cache_key not in cache: ... cache[cache_key] = True"
DedupCache(ch, key) == IF key \notin ch THEN ch \cup {key} ELSE ch

\* Variant: the status is polled whatever the session time
PollDueAlways(e) == e >= 0

\* "if time.time() - scan_start >= 60"
PollDue(e) == e >= CheckInterval

\* Variants: the comparison inverted; the comparison made inclusive
EarlyInverted(e, w) == e > w
EarlyInclusive(e, w) == e <= w

\* "if (time.time() - scan_start) < wait"
Early(e, w) == e < w

\* Variant: the status compared with the wrong spelling
IsDoneWrongCase(r) == r = "done"

\* "if scan['status'] == 'DONE'"
IsDone(r) == r = "DONE"

\* What one call of api.scan_status can give: the service's status, or an APIError
PollResults == {Statuses[svcStatus], "APIError"}

-----------------------------------------------------------------------------
(* scan_submit *)

\* Variant: only a negative wait returns at once
ReturnNowStrict(w) == w < 0

\* "if wait <= 0"
ReturnNow(w) == w <= 0

\* Variant: a failed submission is swallowed and the command carries on
SubmitSwallowsError ==
    /\ pc = "start"
    /\ \E r \in {"ok", "APIError", "Exception"} :
        /\ scan' = IF r = "ok" THEN "scan1" ELSE scan
        /\ pc' = IF ReturnNow(wait) THEN "finally" ELSE "create_alert"
        /\ outcome' = IF ReturnNow(wait) THEN "ok" ELSE outcome
    /\ UNCHANGED <<wait, alert, done, elapsed, cache, hosts, status, svcStatus,
                   doneSince, calls, firstSeen>>
    /\ UNCHANGED reportVars
    /\ UNCHANGED <<streamVars, spinVars, internetVars>>

\* api.scan(netblocks, force=force), then "if wait <= 0"
Submit ==
    /\ pc = "start"
    /\ \E r \in {"ok", "APIError", "Exception"} :
        IF r = "ok"
        THEN /\ scan' = "scan1"
             /\ pc' = IF ReturnNow(wait) THEN "finally" ELSE "create_alert"
             /\ outcome' = IF ReturnNow(wait) THEN "ok" ELSE outcome
        ELSE /\ scan' = scan
             /\ pc' = "finally"
             /\ outcome' = IF r = "APIError" THEN "click_error" ELSE "exception"
    /\ UNCHANGED <<wait, alert, done, elapsed, cache, hosts, status, svcStatus,
                   doneSince, calls, firstSeen>>
    /\ UNCHANGED reportVars
    /\ UNCHANGED <<streamVars, spinVars, internetVars>>

\* Variant: "while True"
LoopHeadIgnoresDone(d, c) ==
    /\ pc' = "iter"
    /\ calls' = Bump(c, "open")

\* "while not done:" followed by "for banner in api.stream.alert(...)": with done set
\* the loop is left for the report, otherwise a channel is opened and iterated.
LoopHead(d, c) ==
    /\ pc' = IF d THEN "report" ELSE "iter"
    /\ calls' = IF d THEN c ELSE Bump(c, "open")

\* api.create_alert, the output file, the spinner, the loop's initial state
CreateAlert ==
    /\ pc = "create_alert"
    /\ \E r \in {"ok", "APIError", "file_error"} :
        CASE r = "APIError" ->
                /\ pc' = "finally"
                /\ outcome' = "click_error"
                /\ UNCHANGED <<alert, calls>>
          [] r = "file_error" ->
                \* helpers.open_file(filename, 'w') raises
                /\ alert' = "alert1"
                /\ pc' = "finally"
                /\ outcome' = "exception"
                /\ UNCHANGED calls
          [] OTHER ->
                /\ alert' = "alert1"
                /\ LoopHead(FALSE, calls)
                /\ UNCHANGED outcome
    /\ done' = FALSE
    /\ elapsed' = 0
    /\ cache' = {}
    /\ hosts' = <<>>
    /\ UNCHANGED <<wait, scan, status, svcStatus, doneSince, firstSeen>>
    /\ UNCHANGED reportVars
    /\ UNCHANGED <<streamVars, spinVars, internetVars>>

\* Variant: the API error is surfaced at once and the command aborted
HandleAPIErrorSurfaces(c, r) ==
    /\ pc' = "finally"
    /\ calls' = c
    /\ outcome' = "click_error"
    /\ UNCHANGED <<done, status>>

\* "except shodan.APIError" of the streaming loop, entered with the counts c;
\* r is what the handler's own api.scan_status call gives.
HandleAPIError(c, r) ==
    IF Early(elapsed, wait)
    THEN \* time.sleep(0.5); continue
         /\ pc' = "backoff"
         /\ calls' = c
         /\ UNCHANGED <<done, status, outcome>>
    ELSE IF done
    THEN /\ pc' = "report"
         /\ calls' = c
         /\ UNCHANGED <<done, status, outcome>>
    ELSE IF r = "APIError"
    THEN \* raised inside the handler: the outer "except shodan.APIError" gets it
         /\ pc' = "finally"
         /\ calls' = Bump(c, "poll858")
         /\ outcome' = "click_error"
         /\ UNCHANGED <<done, status>>
    ELSE /\ status' = r
         /\ done' = IsDone(r)
         /\ LoopHead(IsDone(r), Bump(c, "poll858"))
         /\ UNCHANGED outcome

\* One pass of the body of "for banner in api.stream.alert(...)"
RecvBanner ==
    /\ pc = "iter"
    /\ Events < MaxEvents
    /\ \E b \in BannerSet :
        LET ip == BannerIp(b)
            key == CacheKey(ip, b["port"])
            id == <<ip, b["port"]>>
            c1 == Bump(calls, "read")
        IN  IF ~Truthy(ip)
            THEN \* continue
                 /\ calls' = Bump(c1, "noip")
                 /\ UNCHANGED <<pc, done, cache, hosts, status, outcome, firstSeen>>
            ELSE IF ~HasAddress(b)
            THEN \* helpers.get_ip finds no address: "except Exception" takes the error
                 /\ pc' = "finally"
                 /\ outcome' = "click_error"
                 /\ calls' = c1
                 /\ UNCHANGED <<done, cache, hosts, status, firstSeen>>
            ELSE /\ hosts' = DedupHosts(hosts, cache, key, b)
                 /\ cache' = DedupCache(cache, key)
                 /\ firstSeen' = IF id \in DOMAIN firstSeen THEN firstSeen
                                 ELSE [k \in DOMAIN firstSeen \cup {id} |->
                                          IF k = id THEN b ELSE firstSeen[k]]
                 /\ IF PollDue(elapsed)
                    THEN \E r1 \in PollResults :
                         IF r1 = "APIError"
                         THEN \E r2 \in PollResults :
                                  HandleAPIError(Bump(c1, "poll837"), r2)
                         ELSE /\ status' = r1
                              /\ IF IsDone(r1)
                                 THEN /\ done' = TRUE
                                      /\ LoopHead(TRUE, Bump(c1, "poll837"))
                                 ELSE /\ calls' = Bump(c1, "poll837")
                                      /\ UNCHANGED <<pc, done>>
                              /\ UNCHANGED outcome
                    ELSE /\ calls' = c1
                         /\ UNCHANGED <<pc, done, status, outcome>>
    /\ UNCHANGED <<wait, scan, alert, elapsed, svcStatus, doneSince>>
    /\ UNCHANGED reportVars
    /\ UNCHANGED <<streamVars, spinVars, internetVars>>

\* The channel raises shodan.APIError (a stream timeout, or the service's refusal)
StreamAPIError ==
    /\ pc = "iter"
    /\ Events < MaxEvents
    /\ \E r \in PollResults : HandleAPIError(calls, r)
    /\ UNCHANGED <<wait, scan, alert, elapsed, cache, hosts, svcStatus, doneSince,
                   firstSeen>>
    /\ UNCHANGED reportVars
    /\ UNCHANGED <<streamVars, spinVars, internetVars>>

\* Variant: a socket.timeout at or after wait seconds is raised as an error
StreamSocketTimeoutFatal ==
    /\ pc = "iter"
    /\ Events < MaxEvents
    /\ IF Early(elapsed, wait)
       THEN /\ LoopHead(done, calls)
            /\ UNCHANGED <<done, outcome>>
       ELSE /\ pc' = "finally"
            /\ outcome' = "click_error"
            /\ UNCHANGED <<done, calls>>
    /\ UNCHANGED <<wait, scan, alert, elapsed, cache, hosts, status, svcStatus,
                   doneSince, firstSeen>>
    /\ UNCHANGED reportVars
    /\ UNCHANGED <<streamVars, spinVars, internetVars>>

\* The channel raises socket.timeout
StreamSocketTimeout ==
    /\ pc = "iter"
    /\ Events < MaxEvents
    /\ IF Early(elapsed, wait)
       THEN \* continue
            /\ LoopHead(done, calls)
            /\ UNCHANGED done
       ELSE /\ done' = TRUE
            /\ LoopHead(TRUE, calls)
    /\ UNCHANGED <<wait, scan, alert, elapsed, cache, hosts, status, outcome, svcStatus,
                   doneSince, firstSeen>>
    /\ UNCHANGED reportVars
    /\ UNCHANGED <<streamVars, spinVars, internetVars>>

\* The channel, or the loop's body on a malformed banner, raises any other
\* Exception: the spinner is stopped and a ClickException raised
StreamException ==
    /\ pc = "iter"
    /\ Events < MaxEvents
    /\ pc' = "finally"
    /\ outcome' = "click_error"
    /\ UNCHANGED <<wait, scan, alert, done, elapsed, cache, hosts, status, svcStatus,
                   doneSince, calls, firstSeen>>
    /\ UNCHANGED reportVars
    /\ UNCHANGED <<streamVars, spinVars, internetVars>>

\* The channel's iteration ends without raising: back to "while not done"
StreamEnd ==
    /\ pc = "iter"
    /\ Events < MaxEvents
    /\ LoopHead(done, calls)
    /\ UNCHANGED <<wait, scan, alert, done, elapsed, cache, hosts, status, outcome,
                   svcStatus, doneSince, firstSeen>>
    /\ UNCHANGED reportVars
    /\ UNCHANGED <<streamVars, spinVars, internetVars>>

\* The end of time.sleep(0.5), then "continue"
Wake ==
    /\ pc = "backoff"
    /\ LoopHead(done, calls)
    /\ UNCHANGED <<wait, scan, alert, done, elapsed, cache, hosts, status, outcome,
                   svcStatus, doneSince, firstSeen>>
    /\ UNCHANGED reportVars
    /\ UNCHANGED <<streamVars, spinVars, internetVars>>

\* Variant: the interrupt leaves the command without running the cleanup
InterruptSkipsCleanup ==
    /\ pc \in {"start", "create_alert", "iter", "backoff", "report"}
    /\ pc' = "exited"
    /\ outcome' = "interrupt"
    /\ UNCHANGED <<wait, scan, alert, done, elapsed, cache, hosts, status, svcStatus,
                   doneSince, calls, firstSeen>>
    /\ UNCHANGED reportVars
    /\ UNCHANGED <<streamVars, spinVars, internetVars>>

\* KeyboardInterrupt: no handler of scan_submit catches it, the finally block runs
Interrupt ==
    /\ pc \in {"start", "create_alert", "iter", "backoff", "report"}
    /\ pc' = "finally"
    /\ outcome' = "interrupt"
    /\ UNCHANGED <<wait, scan, alert, done, elapsed, cache, hosts, status, svcStatus,
                   doneSince, calls, firstSeen>>
    /\ UNCHANGED reportVars
    /\ UNCHANGED <<streamVars, spinVars, internetVars>>

\* Variant: the keys in descending order
sortedDescending(S) ==
    LET RECURSIVE Desc(_)
        Desc(T) == IF T = {} THEN <<>>
                   ELSE LET m == CHOOSE x \in T : \A y \in T : y <= x
                        IN  <<m>> \o Desc(T \ {m})
    IN  Desc(S)

\* sorted(...) of a set of keys: the keys in ascending order
sorted(S) ==
    LET RECURSIVE Asc(_)
        Asc(T) == IF T = {} THEN <<>>
                  ELSE LET m == CHOOSE x \in T : \A y \in T : x <= y
                       IN  <<m>> \o Asc(T \ {m})
    IN  Asc(S)

\* "for ip in sorted(hosts): ... for port in sorted(hosts[ip])": the (address, port)
\* rows of the table in the order the report visits them
TableRows(hs) ==
    LET RECURSIVE Rows(_)
        Rows(ips) ==
            IF ips = <<>> THEN <<>>
            ELSE LET ip == Head(ips)
                     ports == sorted(DOMAIN hs[ip])
                 IN  [i \in 1..Len(ports) |-> <<ip, ports[i]>>] \o Rows(Tail(ips))
    IN  Rows(sorted(DOMAIN hs))

\* Variant: "if True"
HasResultsAlways(hs) == TRUE

\* "if hosts:"
HasResults(hs) == DOMAIN hs # {}

\* Variant: the banners are written whether or not a file was asked for
SaveRowsAlways(f, bs) == bs

\* "if fout: helpers.write_banner(fout, hosts[ip][port])" for the banners bs
SaveRows(f, bs) == IF f THEN bs ELSE <<>>

\* After the loop (the spinner stopped): the result table is printed row by row,
\* each banner written to the output file right after its row, or, with an empty
\* table, the "No open ports found ..." line is printed.  Printing a row or writing
\* a banner can raise: k rows were completed before that.  The output file, opened
\* before the loop, is first used here: whether --filename was given is drawn here.
Report ==
    /\ pc = "report"
    /\ pc' = "finally"
    /\ \E filename \in BOOLEAN :
        /\ fout' = filename
        /\ IF ~HasResults(hosts)
           THEN /\ message' = "no_results"
                /\ outcome' = "ok"
                /\ UNCHANGED <<shown, saved>>
           ELSE LET rows == TableRows(hosts) IN
                \E k \in 0..Len(rows), r \in {"ok", "print_error", "write_error"} :
                    /\ r = "ok" <=> k = Len(rows)
                    /\ r = "write_error" => filename
                    /\ message' = "table"
                    /\ shown' = SubSeq(rows, 1, IF r = "write_error" THEN k + 1 ELSE k)
                    /\ saved' = SaveRows(filename,
                                         [i \in 1..k |-> hosts[rows[i][1]][rows[i][2]]])
                    /\ outcome' = IF r = "ok" THEN "ok" ELSE "exception"
    /\ UNCHANGED <<wait, scan, alert, done, elapsed, cache, hosts, status, svcStatus,
                   doneSince, calls, firstSeen>>
    /\ UNCHANGED <<streamVars, spinVars, internetVars>>

\* finally: "if alert: api.delete_alert(alert['id'])"
Finally ==
    /\ pc = "finally"
    /\ pc' = "exited"
    /\ calls' = IF alert # "None" THEN Bump(calls, "delete") ELSE calls
    /\ UNCHANGED <<wait, scan, alert, done, elapsed, cache, hosts, status, outcome,
                   svcStatus, doneSince, firstSeen>>
    /\ UNCHANGED reportVars
    /\ UNCHANGED <<streamVars, spinVars, internetVars>>

\* time.time() advances while the command is blocked on the channel or asleep
Tick ==
    /\ pc \in {"iter", "backoff"}
    /\ \E t \in TimePoints : t > elapsed /\ elapsed' = t
    /\ UNCHANGED <<pc, wait, scan, alert, done, cache, hosts, status, outcome, svcStatus,
                   doneSince, calls, firstSeen>>
    /\ UNCHANGED reportVars
    /\ UNCHANGED <<streamVars, spinVars, internetVars>>

\* The service's crawlers advance the scan: SUBMITTED -> RUNNING -> DONE
ServiceAdvance ==
    /\ pc \in {"iter", "backoff"}
    /\ svcStatus < Len(Statuses)
    /\ svcStatus' = svcStatus + 1
    /\ doneSince' = IF Statuses[svcStatus + 1] = "DONE" THEN elapsed ELSE doneSince
    /\ UNCHANGED <<pc, wait, scan, alert, done, elapsed, cache, hosts, status, outcome,
                   calls, firstSeen>>
    /\ UNCHANGED reportVars
    /\ UNCHANGED <<streamVars, spinVars, internetVars>>

NoHandle == [day |-> 0, open |-> FALSE]

\* "compresslevel=9": the default of open_streaming_file's parameter
DefaultCompressLevel == 9

\* Values of --compresslevel (0-9)
CompressLevels == {1, DefaultCompressLevel}

\* The stream command is not running
StreamParked ==
    /\ spc = "parked"
    /\ limit = 0
    /\ datadir = FALSE
    /\ quiet = FALSE
    /\ counter = 0
    /\ quit = FALSE
    /\ last_time = 0
    /\ sfout = NoHandle
    /\ stream = "live"
    /\ today = 0
    /\ files = <<>>
    /\ printed = <<>>
    /\ taken = 0
    /\ lost = {}
    /\ unprinted = {}
    /\ faults = 0
    /\ soutcome = "none"
    /\ opens = 0
    /\ raised = "none"
    /\ handles = <<>>
    /\ recdays = {}
    /\ stamp = 0
    /\ compresslevel = DefaultCompressLevel
    /\ levels = <<>>

\* No command with a spinner is running
SpinParked ==
    /\ cmd = "parked"
    /\ verbose = FALSE
    /\ mpc = "parked"
    /\ finished_event = FALSE
    /\ progress_bar_thread = "unstarted"
    /\ joined = FALSE
    /\ term = <<>>

\* The scan_internet command is not running
InternetParked ==
    inet = [pc |-> "parked", official |-> FALSE, done |-> FALSE, status |-> "None",
            counter |-> 0, calls |-> [open |-> 0, poll738 |-> 0, poll747 |-> 0],
            svc |-> 1, outcome |-> "none"]

Init == ScanInit /\ StreamParked /\ SpinParked /\ InternetParked

ScanNext ==
    \/ Submit
    \/ CreateAlert
    \/ RecvBanner
    \/ StreamAPIError
    \/ StreamSocketTimeout
    \/ StreamException
    \/ StreamEnd
    \/ Wake
    \/ Interrupt
    \/ Report
    \/ Finally
    \/ Tick
    \/ ServiceAdvance

Next == ScanNext

Spec == Init /\ [][Next]_vars

-----------------------------------------------------------------------------
(* stream *)

\* The --limit values explored: the default (no limit), one record, two records
LimitValues == {-1, 1, 2}

\* The scan_submit command is not running
ScanParked ==
    /\ pc = "parked"
    /\ wait = 0
    /\ scan = "None"
    /\ alert = "None"
    /\ done = FALSE
    /\ elapsed = 0
    /\ cache = {}
    /\ hosts = <<>>
    /\ status = "None"
    /\ outcome = "none"
    /\ svcStatus = 1
    /\ doneSince = -1
    /\ calls = [delete |-> 0, open |-> 0, read |-> 0, noip |-> 0,
                poll837 |-> 0, poll858 |-> 0]
    /\ firstSeen = <<>>
    /\ fout = FALSE
    /\ message = "none"
    /\ shown = <<>>
    /\ saved = <<>>

\* What the target directory can hold when the command starts: nothing, or the
\* file of one day written by an earlier run (its records stand as record 0)
ExistingFiles == {<<>>} \cup { [d \in {x} |-> <<0>>] : x \in {1, 2} }

StreamInit ==
    /\ spc = "start"
    /\ limit \in LimitValues
    /\ datadir \in BOOLEAN
    /\ quiet \in BOOLEAN
    /\ counter = 0
    /\ quit = FALSE
    /\ last_time = 0
    /\ sfout = NoHandle
    /\ stream = "live"
    /\ today = 1
    /\ files \in (IF datadir THEN ExistingFiles ELSE {<<>>})
    /\ printed = <<>>
    /\ taken = 0
    /\ lost = {}
    /\ unprinted = {}
    /\ faults = 0
    /\ soutcome = "none"
    /\ opens = 0
    /\ raised = "none"
    /\ handles = <<>>
    /\ recdays = {}
    /\ stamp = 0
    \* a level other than the default is explored with an empty target directory
    /\ compresslevel \in (IF datadir /\ files = <<>> THEN CompressLevels
                          ELSE {DefaultCompressLevel})
    /\ levels = <<>>

\* Variant: the file is opened for writing and loses its content
OpenFileTruncates(fs, d) == [x \in DOMAIN fs \cup {d} |-> IF x = d THEN <<>> ELSE fs[x]]

\* open_streaming_file: gzip.open('%s/%s.json.gz', 'a') creates the day's file when
\* it is absent and keeps its content when it is there
OpenFile(fs, d) ==
    IF d \in DOMAIN fs THEN fs
    ELSE [x \in DOMAIN fs \cup {d} |-> IF x = d THEN <<>> ELSE fs[x]]

\* helpers.write_banner(fout, banner): one more line in the handle's file
WriteBanner(fs, d, rec) == [fs EXCEPT ![d] = Append(@, rec)]

\* Variant: the old handle is left open when the day changes
CloseHandleForgotten(hs) == hs

\* fout.close(): the handle opened last is closed
CloseHandle(hs) ==
    [i \in 1..Len(hs) |-> IF i = Len(hs) THEN [hs[i] EXCEPT !.open = FALSE] ELSE hs[i]]

\* Variant: the day key taken from the record's timestamp field
CurTimeOfRecord(now, ts) == ts

\* "cur_time = timestr()" while the record with timestamp ts is processed: timestr
\* formats datetime.datetime.utcnow() and is given nothing of the record
CurTime(now, ts) == now

\* The days a record's timestamp field can name when it is taken on day now: the
\* record was collected that day or the day before
StampDays(now) == {now - 1, now}

\* Variants: the limit reached one record early; one record late
OverLimitInclusive(c, l) == c >= l
OverLimitLate(c, l) == c > l + 1

\* "if counter > limit"
OverLimit(c, l) == c > l

\* Variant: no file is opened before the first record
SStartSkipsOpen ==
    /\ spc = "start"
    /\ spc' = "iter"
    /\ last_time' = today
    /\ counter' = 0
    /\ quit' = FALSE
    /\ stream' = "live"
    /\ opens' = opens + 1
    /\ UNCHANGED <<limit, datadir, quiet, today, printed, taken, lost, unprinted, faults,
                   recdays, stamp, sfout, files, handles, soutcome, raised>>
    /\ UNCHANGED levelVars
    /\ UNCHANGED <<scanVars, spinVars, internetVars>>

\* stream = _create_stream(...); counter = 0; quit = False; last_time = timestr();
\* "if datadir: fout = open_streaming_file(datadir, last_time, compresslevel)"
SStart ==
    /\ spc = "start"
    /\ \E r \in {"ok", "open_error"} :
        /\ r = "open_error" => datadir
        /\ last_time' = today
        /\ IF r = "open_error"
           THEN /\ spc' = "exited"
                /\ soutcome' = "exception"
                /\ UNCHANGED <<sfout, files, handles, raised, levels>>
           ELSE /\ spc' = "iter"
                /\ sfout' = IF datadir THEN [day |-> today, open |-> TRUE] ELSE sfout
                /\ files' = IF datadir THEN OpenFile(files, today) ELSE files
                /\ handles' = IF datadir THEN Append(handles, [day |-> today, open |-> TRUE])
                               ELSE handles
                /\ levels' = IF datadir THEN Append(levels, compresslevel) ELSE levels
                /\ UNCHANGED <<soutcome, raised>>
    /\ counter' = 0
    /\ quit' = FALSE
    /\ stream' = "live"
    /\ opens' = opens + 1
    /\ UNCHANGED <<limit, datadir, quiet, today, printed, taken, lost, unprinted, faults,
                   recdays, stamp, compresslevel>>
    /\ UNCHANGED <<scanVars, spinVars, internetVars>>

\* One pass of the body of "for banner in stream": the limit, the day's file, the
\* write, the printed row.  r is what happens on the way: nothing, the rotation's
\* open raises, the write raises, or building or echoing the row raises.
SBanner ==
    /\ spc = "iter"
    /\ stream = "live"
    /\ taken < MaxTaken
    /\ \E r \in {"ok", "open_error", "write_error", "print_error"}, ts \in StampDays(today) :
        LET rec == taken + 1
            c1 == IF limit > 0 THEN counter + 1 ELSE counter
            cur_time == CurTime(today, ts)
            rotate == datadir /\ cur_time # last_time
            h1 == IF ~rotate THEN sfout
                  ELSE IF r = "open_error" THEN [sfout EXCEPT !.open = FALSE]
                  ELSE [day |-> cur_time, open |-> TRUE]
            hs1 == IF ~rotate THEN handles
                   ELSE IF r = "open_error" THEN CloseHandle(handles)
                   ELSE Append(CloseHandle(handles), [day |-> cur_time, open |-> TRUE])
            fs1 == IF rotate /\ r # "open_error" THEN OpenFile(files, cur_time) ELSE files
            \* "fout = open_streaming_file(datadir, last_time)": no level is passed
            lv1 == IF rotate /\ r # "open_error" THEN Append(levels, DefaultCompressLevel)
                   ELSE levels
            sinkRaises == datadir /\ (r \in {"open_error", "write_error"} \/ ~h1.open)
        IN  /\ r # "ok" => faults < MaxFaults
            /\ r = "open_error" => rotate
            /\ r = "write_error" => datadir
            /\ r = "print_error" => ~quiet
            /\ taken' = rec
            /\ stamp' = ts
            /\ counter' = c1
            /\ IF limit > 0 /\ OverLimit(c1, limit)
               THEN \* quit = True; break
                    /\ quit' = TRUE
                    /\ spc' = "exited"
                    /\ soutcome' = "limit"
                    /\ UNCHANGED <<last_time, sfout, files, printed, lost, unprinted, faults,
                                   raised, handles, recdays, levels>>
               ELSE /\ recdays' = IF datadir THEN recdays \cup {today} ELSE recdays
                    /\ last_time' = IF rotate THEN cur_time ELSE last_time
                    /\ sfout' = h1
                    /\ handles' = hs1
                    /\ levels' = lv1
                    /\ IF sinkRaises
                       THEN \* the bare "except:" takes it
                            /\ files' = fs1
                            /\ lost' = lost \cup {rec}
                            /\ faults' = faults + 1
                            /\ spc' = "backoff"
                            /\ raised' = "sink"
                            /\ UNCHANGED <<printed, unprinted>>
                       ELSE /\ files' = IF datadir THEN WriteBanner(fs1, h1.day, rec) ELSE files
                            /\ IF r = "print_error"
                               THEN \* written, then the bare "except:" takes it
                                    /\ unprinted' = unprinted \cup {rec}
                                    /\ faults' = faults + 1
                                    /\ spc' = "backoff"
                                    /\ raised' = "print"
                                    /\ UNCHANGED printed
                               ELSE /\ printed' = IF quiet THEN printed ELSE Append(printed, rec)
                                    /\ UNCHANGED <<unprinted, faults, spc, raised>>
                            /\ UNCHANGED lost
                    /\ UNCHANGED <<quit, soutcome>>
    /\ UNCHANGED <<limit, datadir, quiet, stream, today, opens, compresslevel>>
    /\ UNCHANGED <<scanVars, spinVars, internetVars>>

\* The channel raises requests.exceptions.Timeout: ClickException('Connection timed out')
SChanTimeout ==
    /\ spc = "iter"
    /\ stream = "live"
    /\ faults < MaxFaults
    /\ faults' = faults + 1
    /\ spc' = "exited"
    /\ soutcome' = "click_error"
    /\ raised' = "Timeout"
    /\ UNCHANGED <<limit, datadir, quiet, counter, quit, last_time, sfout, stream, today,
                   files, printed, taken, lost, unprinted, opens, handles, recdays, stamp>>
    /\ UNCHANGED levelVars
    /\ UNCHANGED <<scanVars, spinVars, internetVars>>

\* Variant: the API error is taken for a lost connection and the channel reopened
SChanAPIErrorRecovers ==
    /\ spc = "iter"
    /\ stream = "live"
    /\ faults < MaxFaults
    /\ faults' = faults + 1
    /\ spc' = "backoff"
    /\ raised' = "APIError"
    /\ UNCHANGED <<limit, datadir, quiet, counter, quit, last_time, sfout, stream, today,
                   files, printed, taken, lost, unprinted, soutcome, opens, handles,
                   recdays, stamp>>
    /\ UNCHANGED levelVars
    /\ UNCHANGED <<scanVars, spinVars, internetVars>>

\* The channel raises shodan.APIError: ClickException(e.value)
SChanAPIError ==
    /\ spc = "iter"
    /\ stream = "live"
    /\ faults < MaxFaults
    /\ faults' = faults + 1
    /\ spc' = "exited"
    /\ soutcome' = "click_error"
    /\ raised' = "APIError"
    /\ UNCHANGED <<limit, datadir, quiet, counter, quit, last_time, sfout, stream, today,
                   files, printed, taken, lost, unprinted, opens, handles, recdays, stamp>>
    /\ UNCHANGED levelVars
    /\ UNCHANGED <<scanVars, spinVars, internetVars>>

\* Variant: every channel error ends the command
SChanErrorFatal ==
    /\ spc = "iter"
    /\ stream = "live"
    /\ faults < MaxFaults
    /\ faults' = faults + 1
    /\ spc' = "exited"
    /\ soutcome' = "click_error"
    /\ raised' = "channel"
    /\ UNCHANGED <<limit, datadir, quiet, counter, quit, last_time, sfout, stream, today,
                   files, printed, taken, lost, unprinted, opens, handles, recdays, stamp>>
    /\ UNCHANGED levelVars
    /\ UNCHANGED <<scanVars, spinVars, internetVars>>

\* Variant: the second error in a run ends the command
SChanErrorGivesUp ==
    /\ spc = "iter"
    /\ stream = "live"
    /\ faults < MaxFaults
    /\ faults' = faults + 1
    /\ spc' = IF faults >= 1 THEN "exited" ELSE "backoff"
    /\ soutcome' = IF faults >= 1 THEN "click_error" ELSE soutcome
    /\ raised' = "channel"
    /\ UNCHANGED <<limit, datadir, quiet, counter, quit, last_time, sfout, stream, today,
                   files, printed, taken, lost, unprinted, opens, handles, recdays, stamp>>
    /\ UNCHANGED levelVars
    /\ UNCHANGED <<scanVars, spinVars, internetVars>>

\* The channel raises anything else (a socket.timeout, a broken connection, a
\* malformed line): the bare "except:" takes it
SChanError ==
    /\ spc = "iter"
    /\ stream = "live"
    /\ faults < MaxFaults
    /\ faults' = faults + 1
    /\ spc' = "backoff"
    /\ raised' = "channel"
    /\ UNCHANGED <<limit, datadir, quiet, counter, quit, last_time, sfout, stream, today,
                   files, printed, taken, lost, unprinted, soutcome, opens, handles,
                   recdays, stamp>>
    /\ UNCHANGED levelVars
    /\ UNCHANGED <<scanVars, spinVars, internetVars>>

\* Variant: the end of the channel's iteration ends the command
SChanEndStops ==
    /\ spc = "iter"
    /\ stream = "live"
    /\ stream' = "exhausted"
    /\ spc' = "exited"
    /\ quit' = TRUE
    /\ UNCHANGED <<limit, datadir, quiet, counter, last_time, sfout, today,
                   files, printed, taken, lost, unprinted, faults, soutcome, opens, raised,
                   handles, recdays, stamp>>
    /\ UNCHANGED levelVars
    /\ UNCHANGED <<scanVars, spinVars, internetVars>>

\* The channel's iteration ends without raising: "while not quit" iterates the same,
\* now exhausted, object again
SChanEnd ==
    /\ spc = "iter"
    /\ stream = "live"
    /\ stream' = "exhausted"
    /\ UNCHANGED <<spc, limit, datadir, quiet, counter, quit, last_time, sfout, today,
                   files, printed, taken, lost, unprinted, faults, soutcome, opens, raised,
                   handles, recdays, stamp>>
    /\ UNCHANGED levelVars
    /\ UNCHANGED <<scanVars, spinVars, internetVars>>

\* Variant: the record count starts again with the new channel
SWakeResetsCounter ==
    /\ spc = "backoff"
    /\ spc' = "iter"
    /\ stream' = "live"
    /\ opens' = opens + 1
    /\ counter' = 0
    /\ UNCHANGED <<limit, datadir, quiet, quit, last_time, sfout, today,
                   files, printed, taken, lost, unprinted, faults, soutcome, raised,
                   handles, recdays, stamp>>
    /\ UNCHANGED levelVars
    /\ UNCHANGED <<scanVars, spinVars, internetVars>>

\* The end of time.sleep(1), then stream = _create_stream(...)
SWake ==
    /\ spc = "backoff"
    /\ spc' = "iter"
    /\ stream' = "live"
    /\ opens' = opens + 1
    /\ UNCHANGED <<limit, datadir, quiet, counter, quit, last_time, sfout, today,
                   files, printed, taken, lost, unprinted, faults, soutcome, raised,
                   handles, recdays, stamp>>
    /\ UNCHANGED levelVars
    /\ UNCHANGED <<scanVars, spinVars, internetVars>>

\* Variant: the interrupt is taken for one more error to recover from
SInterruptSwallowed ==
    /\ spc \in {"iter", "backoff"}
    /\ spc' = "backoff"
    /\ raised' = "KeyboardInterrupt"
    /\ UNCHANGED <<limit, datadir, quiet, counter, quit, last_time, sfout, stream, today,
                   files, printed, taken, lost, unprinted, faults, opens, handles, recdays,
                   stamp, soutcome>>
    /\ UNCHANGED levelVars
    /\ UNCHANGED <<scanVars, spinVars, internetVars>>

\* KeyboardInterrupt: caught while iterating ("quit = True"); raised before the
\* loop or during the sleep of the "except:" block no handler takes it
SInterrupt ==
    /\ spc \in {"start", "iter", "backoff"}
    /\ spc' = "exited"
    /\ quit' = IF spc = "iter" THEN TRUE ELSE quit
    /\ soutcome' = IF spc = "iter" THEN "interrupt" ELSE "abort"
    /\ raised' = "KeyboardInterrupt"
    /\ UNCHANGED <<limit, datadir, quiet, counter, last_time, sfout, stream, today,
                   files, printed, taken, lost, unprinted, faults, opens, handles, recdays,
                   stamp>>
    /\ UNCHANGED levelVars
    /\ UNCHANGED <<scanVars, spinVars, internetVars>>

\* datetime.datetime.utcnow() passes midnight
DayTick ==
    /\ spc \in {"iter", "backoff"}
    /\ today < MaxDay
    /\ today' = today + 1
    /\ UNCHANGED <<spc, limit, datadir, quiet, counter, quit, last_time, sfout, stream,
                   files, printed, taken, lost, unprinted, faults, soutcome, opens, raised,
                   handles, recdays, stamp>>
    /\ UNCHANGED levelVars
    /\ UNCHANGED <<scanVars, spinVars, internetVars>>

StreamNext ==
    \/ SStart
    \/ SBanner
    \/ SChanTimeout
    \/ SChanAPIError
    \/ SChanError
    \/ SChanEnd
    \/ SWake
    \/ SInterrupt
    \/ DayTick

StreamSpecInit == StreamInit /\ ScanParked /\ SpinParked /\ InternetParked

StreamSpec == StreamSpecInit /\ [][StreamNext]_vars

-----------------------------------------------------------------------------
(* Properties of scan_submit *)

Max(a, b) == IF a >= b THEN a ELSE b
SvcDone == Statuses[svcStatus] = "DONE"
Streaming == pc \in {"iter", "backoff"}
Polls == calls.poll837 + calls.poll858

\* C1: on every exit path taken after the alert was created, exactly one
\* delete_alert call is issued, and it is issued once the streaming loop has ended
\* (never while the command is still iterating, sleeping or reporting).
C1_DeleteExactlyOnce ==
    /\ calls.delete <= 1
    /\ (pc = "exited" /\ alert # "None") => calls.delete = 1
    /\ calls.delete = 1 => (pc = "exited" /\ alert # "None")

C1_Witness ==
    /\ pc = "exited"
    /\ alert # "None"
    /\ outcome = "interrupt"
    /\ calls.read >= 1
    /\ calls.delete = 1

\* C2: when api.scan fails, the error is surfaced and no alert is created, no
\* channel is opened, no status is polled and no delete_alert call is issued.
C2_SubmitFailureCreatesNothing ==
    scan = "None" =>
        /\ alert = "None"
        /\ calls.open = 0
        /\ calls.delete = 0
        /\ Polls = 0
        /\ pc \in {"finally", "exited"} => outcome \in {"click_error", "exception", "interrupt"}

C2_Witness ==
    /\ pc = "exited"
    /\ scan = "None"
    /\ outcome = "click_error"

\* C3: the result table holds every (address, port) identity taken from the
\* channel exactly once, with the payload of the first banner that carried it;
\* later banners of the same identity never replace it.
C3_FirstSeenKept ==
    /\ HostKeys(hosts) = DOMAIN firstSeen
    /\ \A id \in DOMAIN firstSeen : hosts[id[1]][id[2]] = firstSeen[id]

\* the session ended after a banner repeated an identity already taken
C3_Witness ==
    /\ pc = "report"
    /\ calls.read - calls.noip > Cardinality(DOMAIN firstSeen)

\* C4: a timeout of the channel (an APIError or a socket.timeout) raised before
\* wait seconds of session time does not end the session: the loop goes on with
\* done unset and with the cache and the result table as they were, and the
\* channel is opened again (after the pause, for the APIError).
C4_EarlyTimeoutReconnects ==
    [][ /\ ((StreamAPIError \/ StreamSocketTimeout) /\ elapsed < wait) =>
              /\ pc' \in {"backoff", "iter"}
              /\ pc' = "iter" => calls'.open = calls.open + 1
              /\ done' = FALSE
              /\ outcome' = "none"
              /\ cache' = cache
              /\ hosts' = hosts
              /\ calls'.delete = 0
        /\ (pc = "backoff" /\ pc' # "backoff" /\ outcome' # "interrupt") =>
              /\ pc' = "iter"
              /\ calls'.open = calls.open + 1
              /\ done' = FALSE
              /\ cache' = cache
              /\ hosts' = hosts
      ]_vars

\* pausing after an early API timeout, with the banners collected so far
C4_Witness ==
    /\ pc = "backoff"
    /\ elapsed < CheckInterval
    /\ elapsed < wait
    /\ cache # {}
    /\ HostKeys(hosts) # {}

\* C5 as stated: every timeout raised at or after wait seconds ends the session.
C5_Original ==
    [][ ((StreamAPIError \/ StreamSocketTimeout) /\ elapsed >= wait) =>
            (done' /\ pc' = "report") ]_vars

\* C5 amended: a socket.timeout raised at or after wait seconds ends the session
\* whatever the scan's status; an APIError raised at or after wait seconds makes
\* one status poll and ends the session only if that poll returns DONE: with any
\* other status the channel is opened again, and if the poll raises the command
\* fails.
C5_LateTimeout ==
    [][ /\ (StreamSocketTimeout /\ elapsed >= wait) =>
              (done' /\ pc' = "report" /\ outcome' = "none" /\ Polls' = Polls)
        /\ (StreamAPIError /\ elapsed >= wait) =>
              /\ calls'.poll858 = calls.poll858 + 1
              /\ pc' \in {"report", "iter", "finally"}
              /\ pc' = "report" => (SvcDone /\ done' /\ status' = "DONE")
              /\ pc' = "iter" => (~SvcDone /\ ~done' /\ calls'.open = calls.open + 1)
              /\ pc' = "finally" => (outcome' = "click_error" /\ ~done')
      ]_vars

\* still streaming after an APIError at or after wait seconds polled a scan that
\* was not DONE
C5_Witness ==
    /\ pc = "iter"
    /\ calls.poll858 >= 1
    /\ elapsed >= wait
    /\ ~done

\* C6 as stated: once 60 seconds have elapsed and the service reports DONE, the
\* session ends within one check interval.
C6_Original ==
    (Streaming /\ doneSince >= 0) =>
        elapsed <= Max(doneSince, CheckInterval) + CheckInterval

\* C6 amended: once 60 seconds have elapsed, every banner with an address that is
\* taken from the channel makes one status poll, and a poll that returns DONE ends
\* the session at once, however large wait is; nothing else sets the done flag
\* but a socket.timeout raised at or after wait seconds.
C6_DoneEndsOnNextBanner ==
    [][ /\ (elapsed >= CheckInterval /\ calls'.noip = calls.noip
               /\ calls'.poll837 # calls.poll837 + 1 /\ calls'.read = calls.read + 1) =>
              ~RecvBanner
        /\ (Polls' > Polls /\ status' = "DONE") => (done' /\ pc' = "report")
        /\ (done' /\ ~done) =>
              \/ Polls' > Polls /\ status' = "DONE"
              \/ StreamSocketTimeout /\ elapsed >= wait
      ]_vars

\* a long wait cut short by a poll of the record loop that returned DONE
C6_Witness ==
    /\ pc = "report"
    /\ done
    /\ status = "DONE"
    /\ calls.poll837 >= 1
    /\ calls.poll858 = 0
    /\ elapsed < wait

\* C7: once a poll has returned DONE the done flag is set and stays set; from then
\* on no banner is taken, no status is polled and no channel is opened.
C7_DoneIsFinal ==
    /\ [](status = "DONE" => done)
    /\ [](done => pc \in {"report", "finally", "exited"})
    /\ [][ done => /\ done'
                   /\ calls'.read = calls.read
                   /\ calls'.open = calls.open
                   /\ Polls' = Polls ]_vars

C7_Witness ==
    /\ pc = "exited"
    /\ status = "DONE"
    /\ done
    /\ calls.read >= 1
    /\ calls.open >= 2

\* C8 as stated: the polls of the record loop number at most one per 60-second
\* interval crossed.
C8_Original == calls.poll837 <= elapsed \div CheckInterval

\* C8 amended: the record loop polls once for every banner with an address taken
\* when at least 60 seconds have elapsed (as many polls as such banners, none
\* without one) and never before 60 seconds; the APIError handler polls only at or
\* after wait seconds.
C8_PollPerBanner ==
    [][ /\ calls'.poll837 \in {calls.poll837, calls.poll837 + 1}
        /\ calls'.poll837 = calls.poll837 + 1 <=>
              /\ calls'.read = calls.read + 1
              /\ calls'.noip = calls.noip
              /\ elapsed >= CheckInterval
        /\ calls'.poll858 # calls.poll858 => elapsed >= wait
      ]_vars

\* two polls within the same check interval
C8_Witness ==
    /\ calls.poll837 = 2
    /\ elapsed < CheckInterval + CheckInterval

-----------------------------------------------------------------------------
(* Properties of stream *)

\* The records this run added to the files of the target directory
Written == UNION { { files[d][i] : i \in 1..Len(files[d]) } : d \in DOMAIN files } \ {0}

\* The files' records, in day order
RECURSIVE WrittenFrom(_)
WrittenFrom(d) ==
    IF d > MaxDay THEN <<>>
    ELSE (IF d \in DOMAIN files THEN SelectSeq(files[d], LAMBDA x : x # 0) ELSE <<>>)
             \o WrittenFrom(d + 1)

FirstN(n) == [i \in 1..n |-> i]

\* The first n records taken, less those of the set gone, in order
FirstNLess(n, gone) == SelectSeq(FirstN(n), LAMBDA i : i \notin gone)

\* C9 as stated: with a target directory, every record taken from the channel is
\* persisted unless the sink itself failed on it: the limit leaves none unwritten.
C9_Original == datadir => (Written \cup lost = 1..taken)

\* C9 amended: the limit is checked before the write.  With limit = N > 0 the
\* records persisted are the first N taken (less those the sink failed on); the
\* record whose count exceeds the limit, the (N+1)-th taken, is discarded unwritten,
\* and it is the only one: taking it stops the consumer.  Without a limit every
\* record taken is persisted.
C9_LimitDropsOnlyExcess ==
    /\ datadir => Written = { i \in 1..taken : (limit <= 0 \/ i <= limit) /\ i \notin lost }
    /\ limit > 0 => taken <= limit + 1
    /\ (limit > 0 /\ taken = limit + 1) => (quit /\ spc = "exited")

\* stopped by a limit of 2: three records taken, the third not written
C9_Witness ==
    /\ datadir
    /\ limit = 2
    /\ taken = 3
    /\ soutcome = "limit"
    /\ Written = {1, 2}

\* C10: with limit = N > 0 the consumer never persists or prints more than N
\* records; it stops when the next record arrives after the N-th, and then exactly
\* the first N records taken have been written to the sink and printed, in order
\* (all N of them unless the sink or the printing itself failed on one).
C10_ExactlyLimitProcessed ==
    /\ limit > 0 => (Len(printed) <= limit /\ Cardinality(Written) <= limit)
    /\ (limit > 0 /\ taken > limit) => soutcome = "limit"
    /\ soutcome = "limit" =>
          /\ spc = "exited"
          /\ quit
          /\ limit > 0
          /\ taken = limit + 1
          /\ datadir => WrittenFrom(1) = FirstNLess(limit, lost)
          /\ ~quiet => printed = FirstNLess(limit, lost \cup unprinted)

C10_Witness ==
    /\ spc = "exited"
    /\ soutcome = "limit"
    /\ limit = 2
    /\ datadir
    /\ ~quiet
    /\ lost = {}
    /\ unprinted = {}
    /\ printed = <<1, 2>>
    /\ WrittenFrom(1) = <<1, 2>>

\* The records of one file
Recs(q) == { q[i] : i \in 1..Len(q) }

\* The days of the handles opened so far
HandleDays == { handles[i].day : i \in 1..Len(handles) }

\* A step that takes a record and passes it on to the sink
SinkStep == taken' = taken + 1 /\ datadir /\ soutcome' # "limit"

\* C11 as stated: every timeout of the transport and every other channel error is
\* followed by the pause and the reopening; none ends the command.
C11_Original ==
    [][ (SChanTimeout \/ SChanError) => (spc' = "backoff" /\ soutcome' = "none") ]_vars

\* C11 amended: a requests Timeout raised by the channel ends the command with
\* "Connection timed out" and nothing is reopened; every other channel error (a
\* socket.timeout included) leaves the counter, the files and the printed rows as
\* they were, and after the one-second pause a new channel is made and iterated,
\* unless the user interrupts the pause.
C11_ChannelErrorRecovers ==
    [][ /\ SChanTimeout =>
              (spc' = "exited" /\ soutcome' = "click_error" /\ opens' = opens)
        /\ SChanError =>
              /\ spc' = "backoff"
              /\ soutcome' = "none"
              /\ ~quit'
              /\ <<counter, files, printed, opens>>' = <<counter, files, printed, opens>>
        /\ (spc = "backoff" /\ spc' # "backoff") =>
              \/ spc' = "iter" /\ stream' = "live" /\ opens' = opens + 1 /\ soutcome' = "none"
              \/ spc' = "exited" /\ soutcome' = "abort"
      ]_vars

\* iterating a second channel after a channel error, records taken before and after
C11_Witness ==
    /\ spc = "iter"
    /\ raised = "channel"
    /\ opens = 2
    /\ stream = "live"
    /\ lost = {}
    /\ unprinted = {}
    /\ taken >= 1

\* C12: a shodan.APIError raised by the channel ends the command with a
\* ClickException; afterwards no channel is made, no record is taken, written or
\* printed.
C12_APIErrorIsFatal ==
    /\ [][ SChanAPIError =>
              (spc' = "exited" /\ soutcome' = "click_error" /\ opens' = opens) ]_vars
    /\ [](raised = "APIError" => (spc = "exited" /\ soutcome = "click_error"))
    /\ [][ raised = "APIError" =>
              <<raised, opens, taken, files, printed>>' = <<raised, opens, taken, files, printed>>
        ]_vars

\* ended by an API error on the second channel
C12_Witness ==
    /\ raised = "APIError"
    /\ spc = "exited"
    /\ opens = 2
    /\ taken >= 1

\* C14 as stated: once a record's write (or the file's reopening on rotation) has
\* failed, the consumer takes no further record and makes no new channel.
C14_SinkFailureIsFatal ==
    [][ lost # {} => (taken' = taken /\ opens' = opens) ]_vars

\* C15: at most one handle is open at any time, and it is the one opened last; the
\* handles are opened for strictly increasing days, each the start day or a day on
\* which a record went to the sink, and for every such day when no reopening
\* failed; a record that is written goes to the end of the file of the day on which
\* it is processed, through the open handle of that day, and to no other file.
C15_OneHandlePerDay ==
    /\ [](\A i \in 1..Len(handles) : handles[i].open => i = Len(handles))
    /\ [](\A i \in 1..Len(handles) : \A j \in 1..Len(handles) :
              i < j => handles[i].day < handles[j].day)
    /\ [](handles # <<>> =>
              /\ HandleDays \subseteq recdays \cup {handles[1].day}
              /\ lost = {} => HandleDays = recdays \cup {handles[1].day})
    /\ [][ SinkStep =>
              \/ /\ taken' \in lost'
                 /\ \A d \in DOMAIN files : files'[d] = files[d]
              \/ /\ taken' \notin lost'
                 /\ handles'[Len(handles')] = [day |-> today, open |-> TRUE]
                 /\ files'[today] =
                        Append(IF today \in DOMAIN files THEN files[today] ELSE <<>>, taken')
                 /\ \A d \in DOMAIN files : d # today => files'[d] = files[d]
        ]_vars

\* records processed on days 1, 1, 2, 2, 3: three handles, the last one open
C15_Witness ==
    /\ taken = 5
    /\ Len(handles) = 3
    /\ handles[3] = [day |-> 3, open |-> TRUE]
    /\ DOMAIN files = {1, 2, 3}
    /\ files[1] = <<1, 2>>
    /\ files[2] = <<3, 4>>
    /\ files[3] = <<5>>

\* The days whose file this run created (the file was not there before)
Created == { d \in DOMAIN files : 0 \notin Recs(files[d]) }

\* C16 as stated: a file is created only for a day on which a record was processed.
C16_Original == \A d \in Created : d \in recdays

\* C16 amended: the file of the day the command starts is created at startup,
\* before any record; the file of any later day is created only when a record is
\* processed on that day, so a day that passes without a record has no file.
C16_LaterDaysOpenLazily ==
    /\ [](\A d \in Created : d \in recdays \/ (handles # <<>> /\ d = handles[1].day))
    /\ []((datadir /\ spc \in {"iter", "backoff"}) =>
              (handles # <<>> /\ handles[1].day \in DOMAIN files))
    /\ [][ DOMAIN files' # DOMAIN files =>
              \/ spc = "start" /\ DOMAIN files' = DOMAIN files \cup {today}
              \/ SinkStep /\ DOMAIN files' = DOMAIN files \cup {today} ]_vars

\* started on day 1, idle through day 2, first record on day 3
C16_Witness ==
    /\ DOMAIN files = {1, 3}
    /\ files[1] = <<>>
    /\ recdays = {3}

\* C17 as stated: a record is written to the file of the day of its own timestamp.
C17_Original ==
    [][ SinkStep => \A d \in DOMAIN files' : taken' \in Recs(files'[d]) => d = stamp' ]_vars

\* C17 amended: the day key is the UTC day of the wall clock at the moment the
\* record is processed, whatever the record's timestamp field says: processing a
\* record sets last_time to the current day and the record is written to that
\* day's file only.
C17_DayKeyIsWallClock ==
    [][ SinkStep =>
            /\ last_time' = today
            /\ \A d \in DOMAIN files' : taken' \in Recs(files'[d]) => d = today ]_vars

\* a record stamped the day before, written to the file of the day it arrived
C17_Witness ==
    /\ taken >= 1
    /\ stamp = today - 1
    /\ today \in DOMAIN files
    /\ taken \in Recs(files[today])

-----------------------------------------------------------------------------
(* API errors in scan_submit *)

\* A step in which a shodan.APIError is raised inside the try block of the loop: by
\* the channel, or by the status poll of the record loop (a record is read, its
\* poll is made, and the handler is entered: it sleeps or makes its own poll)
APIErrorInLoop ==
    \/ StreamAPIError
    \/ /\ pc = "iter"
       /\ calls'.read = calls.read + 1
       /\ calls'.poll837 = calls.poll837 + 1
       /\ (pc' = "backoff" \/ calls'.poll858 = calls.poll858 + 1)

\* C13 as stated: an API error raised while the channel is iterated, or by a status
\* poll made during the iteration, aborts the command at once.
C13_Original ==
    [][ APIErrorInLoop => (pc' = "finally" /\ outcome' = "click_error") ]_vars

\* C13 amended: an API error raised by the channel or by the record loop's status
\* poll is handled as a timeout of the channel: before wait seconds the command
\* pauses and opens the channel again; at or after wait seconds the handler polls
\* the status once and, unless the scan is DONE, opens the channel again.  Only an
\* API error raised by the handler's own poll leaves the loop and aborts the command.
C13_APIErrorHandledAsTimeout ==
    [][ /\ APIErrorInLoop =>
              /\ elapsed < wait =>
                    (pc' = "backoff" /\ outcome' = "none" /\ calls'.poll858 = calls.poll858)
              /\ elapsed >= wait =>
                    /\ calls'.poll858 = calls.poll858 + 1
                    /\ pc' \in {"iter", "report", "finally"}
                    /\ pc' = "finally" <=> outcome' = "click_error"
                    /\ pc' = "iter" => calls'.open = calls.open + 1
                    /\ pc' = "report" => status' = "DONE"
        /\ (pc = "iter" /\ outcome' = "click_error") =>
              \/ StreamException
              \/ elapsed >= wait /\ calls'.poll858 = calls.poll858 + 1 /\ status' = status
      ]_vars

\* iterating a reopened channel after the record loop's poll raised an API error
C13_Witness ==
    /\ pc = "iter"
    /\ calls.poll837 >= 1
    /\ calls.poll858 = 0
    /\ status = "None"
    /\ calls.open >= 2
    /\ outcome = "none"

-----------------------------------------------------------------------------
(* The spinner: async_spinner and the commands that start it *)

\* One write to the terminal, with the state of the spinner at that moment
Entry(who) ==
    [by |-> who, started |-> progress_bar_thread # "unstarted", set |-> finished_event,
     joined |-> joined]

SpinInit ==
    /\ cmd \in {"scan_submit", "convert"}
    /\ verbose \in (IF cmd = "scan_submit" THEN BOOLEAN ELSE {FALSE})
    /\ mpc = (IF cmd = "scan_submit" THEN "submit" ELSE "spawn")
    /\ finished_event = FALSE
    /\ progress_bar_thread = "unstarted"
    /\ joined = FALSE
    /\ term = <<>>

\* Variant: "while True"
SpinnerGoesOnAlways(f) == TRUE

\* "while not finished.is_set()"
SpinnerGoesOn(f) == ~f

\* async_spinner: the test of the while loop
SpinnerTest ==
    /\ progress_bar_thread = "test"
    /\ progress_bar_thread' = IF SpinnerGoesOn(finished_event) THEN "write" ELSE "dead"
    /\ UNCHANGED <<cmd, verbose, mpc, finished_event, joined, term>>
    /\ UNCHANGED <<scanVars, streamVars, internetVars>>

\* async_spinner: sys.stdout.write('\b{}'.format(next(spinner))); sys.stdout.flush()
SpinnerWrite ==
    /\ progress_bar_thread = "write"
    /\ Len(term) < MaxWrites \/ finished_event
    /\ term' = Append(term, Entry("spinner"))
    /\ progress_bar_thread' = "wait"
    /\ UNCHANGED <<cmd, verbose, mpc, finished_event, joined>>
    /\ UNCHANGED <<scanVars, streamVars, internetVars>>

\* async_spinner: finished.wait(0.2) returns, the event set or the time elapsed
SpinnerWait ==
    /\ progress_bar_thread = "wait"
    /\ progress_bar_thread' = "test"
    /\ UNCHANGED <<cmd, verbose, mpc, finished_event, joined, term>>
    /\ UNCHANGED <<scanVars, streamVars, internetVars>>

\* scan_submit up to the spinner: api.scan and the starting lines echoed; with
\* wait <= 0, or when api.scan or api.create_alert raises, no spinner is started
ScanAnnounce ==
    /\ cmd = "scan_submit"
    /\ mpc = "submit"
    /\ \E r \in {"ok", "no_wait", "scan_error", "alert_error"} :
        /\ term' = IF r = "scan_error" THEN term ELSE Append(term, Entry("main"))
        /\ mpc' = IF r = "ok" THEN "spawn" ELSE "finally"
    /\ UNCHANGED <<cmd, verbose, finished_event, progress_bar_thread, joined>>
    /\ UNCHANGED <<scanVars, streamVars, internetVars>>

\* scan_submit: finished_event = threading.Event(); progress_bar_thread.start()
ScanStartSpinner ==
    /\ cmd = "scan_submit"
    /\ mpc = "spawn"
    /\ finished_event' = FALSE
    /\ progress_bar_thread' = "test"
    /\ mpc' = "loop"
    /\ UNCHANGED <<cmd, verbose, joined, term>>
    /\ UNCHANGED <<scanVars, streamVars, internetVars>>

\* scan_submit, in the loop: "if verbose: click.echo('# Scan status: ...')" after a
\* status poll that did not end the loop
ScanStatusEcho ==
    /\ cmd = "scan_submit"
    /\ mpc = "loop"
    /\ verbose
    /\ Len(term) < MaxWrites
    /\ term' = Append(term, Entry("main"))
    /\ UNCHANGED <<cmd, verbose, mpc, finished_event, progress_bar_thread, joined>>
    /\ UNCHANGED <<scanVars, streamVars, internetVars>>

\* scan_submit: the loop ends with done set (the last status line echoed when
\* verbose), then finished_event.set()
ScanLoopEnds ==
    /\ cmd = "scan_submit"
    /\ mpc = "loop"
    /\ \E echo \in {b \in BOOLEAN : b => verbose} :
        term' = IF echo THEN Append(term, Entry("main")) ELSE term
    /\ finished_event' = TRUE
    /\ mpc' = "join"
    /\ UNCHANGED <<cmd, verbose, progress_bar_thread, joined>>
    /\ UNCHANGED <<scanVars, streamVars, internetVars>>

\* scan_submit: "except Exception as e: finished_event.set()"
ScanLoopException ==
    /\ cmd = "scan_submit"
    /\ mpc = "loop"
    /\ finished_event' = TRUE
    /\ mpc' = "join_exc"
    /\ UNCHANGED <<cmd, verbose, progress_bar_thread, joined, term>>
    /\ UNCHANGED <<scanVars, streamVars, internetVars>>

\* Thread.join() returns once the thread has ended
ThreadJoinable(t) == t = "dead"

\* scan_submit: progress_bar_thread.join() after the loop
ScanJoin ==
    /\ cmd = "scan_submit"
    /\ mpc = "join"
    /\ ThreadJoinable(progress_bar_thread)
    /\ joined' = TRUE
    /\ mpc' = "report"
    /\ UNCHANGED <<cmd, verbose, finished_event, progress_bar_thread, term>>
    /\ UNCHANGED <<scanVars, streamVars, internetVars>>

\* scan_submit: progress_bar_thread.join(); raise click.ClickException(repr(e))
ScanJoinExc ==
    /\ cmd = "scan_submit"
    /\ mpc = "join_exc"
    /\ ThreadJoinable(progress_bar_thread)
    /\ joined' = TRUE
    /\ mpc' = "finally"
    /\ UNCHANGED <<cmd, verbose, finished_event, progress_bar_thread, term>>
    /\ UNCHANGED <<scanVars, streamVars, internetVars>>

\* scan_submit: the status poll of the APIError handler raises shodan.APIError; it
\* leaves the loop for the outer "except shodan.APIError"
ScanAPIErrorEscapes ==
    /\ cmd = "scan_submit"
    /\ mpc = "loop"
    /\ mpc' = "finally"
    /\ UNCHANGED <<cmd, verbose, finished_event, progress_bar_thread, joined, term>>
    /\ UNCHANGED <<scanVars, streamVars, internetVars>>

\* scan_submit: KeyboardInterrupt, which "except Exception" does not catch
ScanInterrupt ==
    /\ cmd = "scan_submit"
    /\ mpc \in {"spawn", "loop", "join", "join_exc", "report"}
    /\ mpc' = "finally"
    /\ UNCHANGED <<cmd, verbose, finished_event, progress_bar_thread, joined, term>>
    /\ UNCHANGED <<scanVars, streamVars, internetVars>>

\* scan_submit: the result table (or "No open ports found ...") is echoed
ScanReport ==
    /\ cmd = "scan_submit"
    /\ mpc = "report"
    /\ term' = Append(term, Entry("main"))
    /\ mpc' = "finally"
    /\ UNCHANGED <<cmd, verbose, finished_event, progress_bar_thread, joined>>
    /\ UNCHANGED <<scanVars, streamVars, internetVars>>

\* scan_submit: the finally block, then the function returns or raises
ScanFinally ==
    /\ cmd = "scan_submit"
    /\ mpc = "finally"
    /\ mpc' = "returned"
    /\ UNCHANGED <<cmd, verbose, finished_event, progress_bar_thread, joined, term>>
    /\ UNCHANGED <<scanVars, streamVars, internetVars>>

\* convert: finished_event = threading.Event(); progress_bar_thread.start()
ConvertStartSpinner ==
    /\ cmd = "convert"
    /\ mpc = "spawn"
    /\ finished_event' = FALSE
    /\ progress_bar_thread' = "test"
    /\ mpc' = "work"
    /\ UNCHANGED <<cmd, verbose, joined, term>>
    /\ UNCHANGED <<scanVars, streamVars, internetVars>>

\* convert: the converter is made and converter.process([input]) run, then
\* finished_event.set(); an exception of the converter leaves the command, no
\* handler being there
ConvertProcess ==
    /\ cmd = "convert"
    /\ mpc = "work"
    /\ \E r \in {"ok", "error"} :
        /\ finished_event' = (r = "ok")
        /\ mpc' = IF r = "ok" THEN "join" ELSE "returned"
    /\ UNCHANGED <<cmd, verbose, progress_bar_thread, joined, term>>
    /\ UNCHANGED <<scanVars, streamVars, internetVars>>

\* convert: progress_bar_thread.join()
ConvertJoin ==
    /\ cmd = "convert"
    /\ mpc = "join"
    /\ ThreadJoinable(progress_bar_thread)
    /\ joined' = TRUE
    /\ mpc' = "report"
    /\ UNCHANGED <<cmd, verbose, finished_event, progress_bar_thread, term>>
    /\ UNCHANGED <<scanVars, streamVars, internetVars>>

\* convert: click.echo('\rSuccessfully ...')
ConvertReport ==
    /\ cmd = "convert"
    /\ mpc = "report"
    /\ term' = Append(term, Entry("main"))
    /\ mpc' = "returned"
    /\ UNCHANGED <<cmd, verbose, finished_event, progress_bar_thread, joined>>
    /\ UNCHANGED <<scanVars, streamVars, internetVars>>

\* convert: KeyboardInterrupt
ConvertInterrupt ==
    /\ cmd = "convert"
    /\ mpc \in {"work", "join", "report"}
    /\ mpc' = "returned"
    /\ UNCHANGED <<cmd, verbose, finished_event, progress_bar_thread, joined, term>>
    /\ UNCHANGED <<scanVars, streamVars, internetVars>>

\* main() has returned or raised: the interpreter exits once no thread started
\* with threading.Thread (not a daemon) is left running
ProcessExit ==
    /\ mpc = "returned"
    /\ progress_bar_thread \in {"unstarted", "dead"}
    /\ mpc' = "exited"
    /\ UNCHANGED <<cmd, verbose, finished_event, progress_bar_thread, joined, term>>
    /\ UNCHANGED <<scanVars, streamVars, internetVars>>

SpinNext ==
    \/ SpinnerTest
    \/ SpinnerWrite
    \/ SpinnerWait
    \/ ScanAnnounce
    \/ ScanStartSpinner
    \/ ScanStatusEcho
    \/ ScanLoopEnds
    \/ ScanLoopException
    \/ ScanJoin
    \/ ScanJoinExc
    \/ ScanAPIErrorEscapes
    \/ ScanInterrupt
    \/ ScanReport
    \/ ScanFinally
    \/ ConvertStartSpinner
    \/ ConvertProcess
    \/ ConvertJoin
    \/ ConvertReport
    \/ ConvertInterrupt
    \/ ProcessExit

SpinSpecInit == SpinInit /\ ScanParked /\ StreamParked /\ InternetParked

SpinSpec == SpinSpecInit /\ [][SpinNext]_vars

\* The spinner's thread is scheduled: each of its steps, once enabled, is taken
SpinFairness ==
    /\ WF_vars(SpinnerTest)
    /\ WF_vars(SpinnerWrite)
    /\ WF_vars(SpinnerWait)

FairSpinSpec == SpinSpecInit /\ [][SpinNext]_vars /\ SpinFairness

-----------------------------------------------------------------------------
(* Properties of the spinner *)

SpinnerStarted == progress_bar_thread # "unstarted"

\* The spinner's writes made after the stop event was set
WritesAfterSet == { i \in 1..Len(term) : term[i].by = "spinner" /\ term[i].set }

\* C18 as stated: every write of the main flow happens before the spinner is
\* started or after it was signalled to stop and joined.
C18_NoMainOutputWhileSpinning ==
    \A i \in 1..Len(term) :
        term[i].by = "main" => (~term[i].started \/ (term[i].set /\ term[i].joined))

\* C19 as stated: once the spinner was started, the command's main flow does not end
\* without the stop event set and the thread joined.
C19_StoppedOnEveryExit ==
    (SpinnerStarted /\ mpc \in {"returned", "exited"}) => (finished_event /\ joined)

\* C20: once the stop event is set it stays set, the spinner writes at most one more
\* character and then ends; the join returns only when the thread has ended, and
\* nothing is written by the spinner after the join returned.
C20_SpinnerStopsAfterSet ==
    /\ [][finished_event => finished_event']_vars
    /\ [](Cardinality(WritesAfterSet) <= 1)
    /\ [](joined => (finished_event /\ progress_bar_thread = "dead"))
    /\ [](\A i \in 1..Len(term) : term[i].by = "spinner" => ~term[i].joined)
    /\ [][progress_bar_thread = "dead" => progress_bar_thread' = "dead"]_vars
    /\ (finished_event ~> progress_bar_thread = "dead")

\* joined after the spinner wrote its one last character past the stop event, the
\* owner's own output following
C20_Witness ==
    /\ joined
    /\ progress_bar_thread = "dead"
    /\ Cardinality(WritesAfterSet) = 1
    /\ term[Len(term)].by = "main"

-----------------------------------------------------------------------------
(* The end of scan_submit: records without an address, the report, the file *)

\* Row a comes before row b: by address, then by port
RowBefore(a, b) == a[1] < b[1] \/ (a[1] = b[1] /\ a[2] < b[2])

\* The entries of a sequence
Entries(q) == { q[i] : i \in 1..Len(q) }

\* C22: with wait <= 0 the command ends right after the submission: no alert is
\* created, no channel opened, no status polled, no delete_alert issued, and a
\* successful submission ends without an error.
C22_NoWaitReturnsAtOnce ==
    wait <= 0 =>
        /\ alert = "None"
        /\ calls.open = 0
        /\ Polls = 0
        /\ calls.delete = 0
        /\ pc \in {"start", "finally", "exited"}
        /\ (scan # "None" /\ outcome # "interrupt") => outcome = "ok"
        /\ message = "none"

C22_Witness ==
    /\ wait = 0
    /\ pc = "exited"
    /\ scan # "None"
    /\ outcome = "ok"

\* C23: a record with neither ip nor ipv6 is skipped: the cache and the result
\* table stay as they were, no status is polled for it and the loop goes on with the
\* next record; neither the cache nor the table ever holds an entry without an
\* address, and taking a record raises no error (only the handler's own status poll
\* can).
C23_AddresslessSkipped ==
    /\ [][ (pc = "iter" /\ calls'.noip = calls.noip + 1) =>
              /\ calls'.read = calls.read + 1
              /\ <<cache, hosts, done, outcome, status>>' = <<cache, hosts, done, outcome, status>>
              /\ Polls' = Polls
              /\ pc' = "iter" ]_vars
    /\ [](\A p \in Ports : CacheKey(0, p) \notin cache)
    /\ [](0 \notin DOMAIN hosts)
    /\ [][ (pc = "iter" /\ calls'.read = calls.read + 1 /\ outcome' # "none") =>
              calls'.poll858 = calls.poll858 + 1 ]_vars

\* records without an address taken between records with one; still iterating
C23_Witness ==
    /\ pc = "iter"
    /\ calls.noip >= 1
    /\ calls.read = 3
    /\ Cardinality(cache) = calls.read - calls.noip
    /\ outcome = "none"

\* C24: a session that ends with an empty result table prints the "no results"
\* line and no row, raises nothing, and the alert is deleted.
C24_EmptyTableReportsNoResults ==
    /\ [][ (pc = "report" /\ pc' = "finally" /\ HostKeys(hosts) = {} /\ outcome' # "interrupt") =>
              (message' = "no_results" /\ outcome' = "ok" /\ shown' = <<>>) ]_vars
    /\ [](message = "no_results" => (HostKeys(hosts) = {} /\ outcome = "ok" /\ done))
    /\ []((message = "no_results" /\ pc = "exited") => calls.delete = 1)

\* ended with nothing but records without an address
C24_Witness ==
    /\ pc = "exited"
    /\ message = "no_results"
    /\ calls.read >= 1
    /\ calls.read = calls.noip
    /\ calls.delete = 1
    /\ outcome = "ok"

\* C25: the rows of the report come in ascending order of address and, within an
\* address, of port, each row once; a report that completes shows every entry of
\* the table, whatever the order in which its banners arrived.
C25_ReportSorted ==
    /\ \A i \in 1..Len(shown) : \A j \in 1..Len(shown) : i < j => RowBefore(shown[i], shown[j])
    /\ Entries(shown) \subseteq HostKeys(hosts)
    /\ (message = "table" /\ outcome = "ok") => Entries(shown) = HostKeys(hosts)

\* three rows over two hosts, reported in full
C25_Witness ==
    /\ pc = "exited"
    /\ outcome = "ok"
    /\ Len(shown) = 3
    /\ shown[1][1] # shown[3][1]

\* C29 as stated: every reopening of the channel after an early timeout, of either
\* kind, comes after a pause.
C29_PauseBeforeEveryReopen ==
    [][ ((StreamAPIError \/ StreamSocketTimeout) /\ elapsed < wait) => pc' = "backoff" ]_vars

\* C30: nothing is written to the output file while the session is streaming, nor
\* without a file, nor when the command leaves the loop with an error; the banners
\* written are those of the table's rows in address-then-port order, each once, as
\* far as the report got, and all of them when the report completes.
C30_FileHoldsTheTable ==
    /\ pc \in {"start", "create_alert", "iter", "backoff", "report"} => saved = <<>>
    /\ ~fout => saved = <<>>
    /\ message = "none" => saved = <<>>
    /\ Len(saved) <= Len(TableRows(hosts))
    /\ \A i \in 1..Len(saved) :
          /\ HasAddress(saved[i])
          /\ <<get_ip(saved[i]), saved[i].port>> = TableRows(hosts)[i]
          /\ saved[i] = firstSeen[TableRows(hosts)[i]]
    /\ \A i \in 1..Len(saved) : \A j \in 1..Len(saved) :
          i < j => RowBefore(<<get_ip(saved[i]), saved[i].port>>, <<get_ip(saved[j]), saved[j].port>>)
    /\ (fout /\ message = "table" /\ outcome = "ok") => Len(saved) = Cardinality(HostKeys(hosts))

\* a table of three entries over two hosts saved in full
C30_Witness ==
    /\ pc = "exited"
    /\ fout
    /\ outcome = "ok"
    /\ Len(saved) = 3
    /\ get_ip(saved[1]) # get_ip(saved[3])
    /\ calls.delete = 1

-----------------------------------------------------------------------------
(* More properties of stream *)

\* q is an initial part of r
IsPrefix(q, r) == Len(q) <= Len(r) /\ \A i \in 1..Len(q) : q[i] = r[i]

\* C21: a user interrupt, wherever it arrives (before the loop, while iterating,
\* during the pause before a reopening), ends the command; from then on no record
\* is taken, written or printed and no channel is made.
C21_InterruptStops ==
    /\ [][ SInterrupt => (spc' = "exited" /\ opens' = opens /\ taken' = taken) ]_vars
    /\ [](raised = "KeyboardInterrupt" =>
              (spc = "exited" /\ soutcome \in {"interrupt", "abort"}))
    /\ [](soutcome = "interrupt" => quit)
    /\ [][ raised = "KeyboardInterrupt" =>
              <<spc, opens, taken, files, printed>>' = <<spc, opens, taken, files, printed>>
        ]_vars

\* interrupted during the pause that followed a channel error, records taken before
C21_Witness ==
    /\ raised = "KeyboardInterrupt"
    /\ soutcome = "abort"
    /\ spc = "exited"
    /\ opens = 1
    /\ faults = 1
    /\ taken >= 1

\* C27: opening a day's file keeps what it holds: no step removes a file or takes
\* anything away from one, records are only added at the end.
C27_OpenNeverTruncates ==
    [][ \A d \in DOMAIN files : d \in DOMAIN files' /\ IsPrefix(files[d], files'[d]) ]_vars

\* the file of the second day was there before the run; the run rotated to it and
\* added a record after the old ones
C27_Witness ==
    /\ 2 \in DOMAIN files
    /\ Len(files[2]) = 2
    /\ files[2][1] = 0
    /\ files[2][2] >= 1
    /\ Len(handles) = 2

\* C28: with limit = N > 0 the counter is the number of records taken in the whole
\* run, whatever the number of channels made: it never goes down, a reopening
\* leaves it as it is, and the records written and the rows printed never number
\* more than N.
C28_CountKeptAcrossReopenings ==
    /\ [](limit > 0 => (counter = taken /\ counter <= limit + 1))
    /\ [](limit > 0 => (Cardinality(Written) <= limit /\ Len(printed) <= limit))
    /\ [][ spc # "start" => counter' >= counter ]_vars
    /\ [][ opens' # opens => (spc = "start" \/ counter' = counter) ]_vars

\* stopped by a limit of 2 on the third channel, a record taken on each
C28_Witness ==
    /\ limit = 2
    /\ opens = 3
    /\ soutcome = "limit"
    /\ taken = 3
    /\ Len(printed) = 2

-----------------------------------------------------------------------------
(* The command line: one run of scan_submit or of stream, and its exit status *)

\* One command is started.  scan_submit runs without a wait or with the default
\* one, which gives timeouts both before and after the wait has elapsed.  How
\* stream ends does not depend on what the target directory holds or on the
\* compression level: it starts with an empty directory and the default level.
CliInit ==
    \/ Init /\ wait \in {0, 20}
    \/ StreamSpecInit /\ files = <<>> /\ compresslevel = DefaultCompressLevel

CliNext == ScanNext \/ StreamNext

CliSpec == CliInit /\ [][CliNext]_vars

\* The exit status click gives main(): 1 when the command raised (a ClickException
\* shows its message first), 0 when it returned
ClickExit(raisedOut) == IF raisedOut THEN 1 ELSE 0

\* scan_submit returns only when nothing was raised on the way
ScanExit == ClickExit(outcome # "ok")

\* stream returns when its loop ends: stopped by the limit or by a caught interrupt
StreamExit == ClickExit(soutcome \notin {"limit", "interrupt"})

\* C26 as stated: a fatal protocol error ends the command with a message and a
\* non-zero status; the limit reached and the timeout elapsed end it with status 0.
C26_Original ==
    /\ (spc = "exited" /\ raised = "APIError") => (soutcome = "click_error" /\ StreamExit = 1)
    /\ soutcome = "limit" => StreamExit = 0
    /\ (spc = "exited" /\ raised = "Timeout") => StreamExit = 0
    /\ (pc = "exited" /\ outcome = "click_error") => ScanExit = 1
    /\ (pc = "exited" /\ done /\ status # "DONE" /\ message # "none"
          /\ outcome \notin {"exception", "interrupt"}) => ScanExit = 0

\* C26 amended: in stream an API error and a timeout of the channel both end the
\* command with a message and a non-zero status, and the limit reached ends it with
\* status 0; in scan_submit an API error that leaves the loop ends the command with
\* a message and a non-zero status, and a socket.timeout at or after wait seconds is
\* no error: the session ends, the report follows, and the command exits with
\* status 0 once the report is through.
C26_ExitStatus ==
    /\ [](raised \in {"APIError", "Timeout"} =>
              (spc = "exited" /\ soutcome = "click_error" /\ StreamExit = 1))
    /\ [](soutcome = "limit" => (spc = "exited" /\ StreamExit = 0))
    /\ []((pc = "exited" /\ outcome = "click_error") => ScanExit = 1)
    /\ [][ (StreamSocketTimeout /\ elapsed >= wait) =>
              (done' /\ pc' = "report" /\ outcome' = "none") ]_vars
    /\ []((pc \in {"finally", "exited"} /\ done /\ status # "DONE") =>
              /\ outcome \in {"ok", "exception", "interrupt"}
              /\ (message # "none" /\ outcome \notin {"exception", "interrupt"}) => ScanExit = 0)

\* stream ended by a timeout of its second channel: an error exit
C26_Witness ==
    /\ spc = "exited"
    /\ raised = "Timeout"
    /\ soutcome = "click_error"
    /\ StreamExit = 1
    /\ opens = 2

-----------------------------------------------------------------------------
(* The dedup cache and the result table of scan_submit *)

\* The cache keys of the identities held by the result table
TableKeys(hs) == { CacheKey(id[1], id[2]) : id \in HostKeys(hs) }

\* C35: at every point of a scan_submit session the identities marked in the dedup
\* cache are those of the (host, port) entries of the result table; the cache and
\* the table only grow, and an entry once added is never replaced or removed.
C35_CacheMirrorsTable ==
    /\ [](cache = TableKeys(hosts))
    /\ [][ (cache' # cache \/ hosts' # hosts) =>
              /\ cache \subseteq cache'
              /\ HostKeys(hosts) \subseteq HostKeys(hosts')
              /\ \A id \in HostKeys(hosts) : hosts'[id[1]][id[2]] = hosts[id[1]][id[2]]
              /\ Cardinality(cache') - Cardinality(cache)
                    = Cardinality(HostKeys(hosts')) - Cardinality(HostKeys(hosts))
         ]_vars

\* two identities are marked and held, and a banner repeating one of them was taken
C35_Witness ==
    /\ pc = "iter"
    /\ Cardinality(cache) = 2
    /\ Cardinality(HostKeys(hosts)) = 2
    /\ calls.read - calls.noip = 3

-----------------------------------------------------------------------------
(* The compression level of the sink files of stream *)

\* C34: every sink file the stream command opens in one run, the one opened at the
\* start and each one opened when the day changes, is opened with the compression
\* level given by --compresslevel.
C34_ConfiguredLevelEverywhere ==
    \A i \in 1..Len(levels) : levels[i] = compresslevel

-----------------------------------------------------------------------------
(* Recovery and the end of the channel in stream *)

\* C32: the stream command counts no recovery attempts: every error of the channel
\* that the bare "except:" takes, however many came before it, is followed by the
\* pause and a new channel, and the loop is left only by the limit reached, a user
\* interrupt, an API error or a requests Timeout (a run can also fail before the
\* loop, when the first sink file cannot be opened).
C32_RecoveryIsUnbounded ==
    /\ [][ SChanError => (spc' = "backoff" /\ ~quit' /\ soutcome' = "none") ]_vars
    /\ [][ (spc = "backoff" /\ spc' # "backoff") =>
              \/ spc' = "iter" /\ stream' = "live" /\ opens' = opens + 1
              \/ raised' = "KeyboardInterrupt" ]_vars
    /\ [](spc = "exited" =>
              \/ soutcome = "limit"
              \/ soutcome \in {"interrupt", "abort"} /\ raised = "KeyboardInterrupt"
              \/ soutcome = "click_error" /\ raised \in {"APIError", "Timeout"}
              \/ soutcome = "exception" /\ taken = 0 /\ handles = <<>> /\ opens = 1)

\* as many channel errors in a row as the model allows, no record in between, and
\* one more channel is iterated
C32_Witness ==
    /\ spc = "iter"
    /\ stream = "live"
    /\ raised = "channel"
    /\ taken = 0
    /\ faults = MaxFaults
    /\ opens = MaxFaults + 1

\* C33: in the stream command a channel is made only at start-up and after the
\* pause that follows an exception taken by the bare "except:"; when the channel's
\* iteration ends without raising, the command neither stops nor makes a channel:
\* it goes on iterating the exhausted channel, so no record is taken, written or
\* printed any more and only an interrupt ends the command.
C33_CleanEndSpins ==
    /\ [][ opens' # opens =>
              /\ opens' = opens + 1
              /\ \/ spc = "start"
                 \/ spc = "backoff" /\ raised \in {"channel", "sink", "print"} ]_vars
    /\ [][ SChanEnd => (spc' = "iter" /\ ~quit' /\ opens' = opens /\ soutcome' = "none") ]_vars
    /\ [][ stream = "exhausted" =>
              /\ stream' = "exhausted"
              /\ <<taken, opens, files, printed, counter>>' = <<taken, opens, files, printed, counter>>
              /\ spc' # spc => (spc' = "exited" /\ raised' = "KeyboardInterrupt") ]_vars

\* the second channel, made after an error, has ended cleanly after a record
C33_Witness ==
    /\ spc = "iter"
    /\ stream = "exhausted"
    /\ opens = 2
    /\ taken >= 1
    /\ ~quit

-----------------------------------------------------------------------------
(* scan_internet: submit an Internet-wide scan of one port and save what the *)
(* ports channel delivers until the scan's status is DONE                   *)

\* Records taken and channels opened so far
Signals == inet.counter + inet.calls.open

InternetInit ==
    \E o \in BOOLEAN :
        inet = [pc |-> "start", official |-> o, done |-> FALSE, status |-> "None",
                counter |-> 0, calls |-> [open |-> 0, poll738 |-> 0, poll747 |-> 0],
                svc |-> 1, outcome |-> "none"]

\* What api.scan_status can give scan_internet: the service's status, or an APIError
InternetPollResults == {Statuses[inet.svc], "APIError"}

\* raise click.ClickException(...): the command ends with an error
InternetRaise(st) == [st EXCEPT !.pc = "exited", !.outcome = "click_error"]

\* scan = api.scan_internet(port, protocol)
InternetSubmit ==
    /\ inet.pc = "start"
    /\ \E r \in {"ok", "APIError"} :
        inet' = IF r = "APIError" THEN InternetRaise(inet) ELSE [inet EXCEPT !.pc = "ports"]
    /\ UNCHANGED <<scanVars, streamVars, spinVars>>

\* official_ports = api.ports(); "if port in official_ports" the command returns, else
\* the output file is opened, done = False, and the first channel is opened
InternetPorts ==
    /\ inet.pc = "ports"
    /\ \E r \in {"ok", "APIError", "file_error"} :
        /\ r = "file_error" => ~inet.official
        /\ inet' = CASE r = "APIError" -> InternetRaise(inet)
                     [] r = "file_error" ->
                            [inet EXCEPT !.pc = "exited", !.outcome = "exception"]
                     [] OTHER ->
                            IF inet.official
                            THEN [inet EXCEPT !.pc = "exited", !.outcome = "ok"]
                            ELSE [inet EXCEPT !.pc = "iter", !.done = FALSE,
                                              !.calls = Bump(@, "open")]
    /\ UNCHANGED <<scanVars, streamVars, spinVars>>

\* One pass of the body of "for banner in api.stream.ports(...)": counter += 1, the
\* banner is written and, unless quiet, printed; a failure of the write or of the
\* row is taken by "except Exception"
InternetBanner ==
    /\ inet.pc = "iter"
    /\ Signals < MaxSignals
    /\ \E r \in {"ok", "error"} :
        LET st == [inet EXCEPT !.counter = @ + 1]
        IN  inet' = IF r = "error" THEN InternetRaise(st) ELSE st
    /\ UNCHANGED <<scanVars, streamVars, spinVars>>

\* Variant: the status the poll returns is not looked at
InternetHandlerIgnoresStatus(c, r) ==
    IF r = "APIError"
    THEN [InternetRaise(inet) EXCEPT !.calls = c]
    ELSE [inet EXCEPT !.status = r, !.calls = Bump(c, "open")]

\* The body shared by "except shodan.APIError" and "except socket.timeout", entered
\* with done unset: scan = api.scan_status(scan['id']), c are the counts with that
\* call and r is what it gives (an APIError raised here goes to the outer
\* "except shodan.APIError"); "if scan['status'] == 'DONE': done = True"; then
\* "while not done" ends the loop or opens the next channel.  The state after it.
InternetHandler(c, r) ==
    IF r = "APIError"
    THEN [InternetRaise(inet) EXCEPT !.calls = c]
    ELSE IF IsDone(r)
    THEN [inet EXCEPT !.status = r, !.done = TRUE, !.pc = "finished", !.calls = c]
    ELSE [inet EXCEPT !.status = r, !.calls = Bump(c, "open")]

\* The channel raises shodan.APIError
InternetAPIError ==
    /\ inet.pc = "iter"
    /\ Signals < MaxSignals
    /\ \E r \in InternetPollResults :
        inet' = InternetHandler(Bump(inet.calls, "poll738"), r)
    /\ UNCHANGED <<scanVars, streamVars, spinVars>>

\* The channel raises socket.timeout (no record for 90 seconds)
InternetSocketTimeout ==
    /\ inet.pc = "iter"
    /\ Signals < MaxSignals
    /\ \E r \in InternetPollResults :
        inet' = InternetHandler(Bump(inet.calls, "poll747"), r)
    /\ UNCHANGED <<scanVars, streamVars, spinVars>>

\* The channel raises any other Exception: raise click.ClickException(repr(e))
InternetException ==
    /\ inet.pc = "iter"
    /\ inet' = InternetRaise(inet)
    /\ UNCHANGED <<scanVars, streamVars, spinVars>>

\* The channel's iteration ends without raising: "while not done" opens the next one
InternetEnd ==
    /\ inet.pc = "iter"
    /\ Signals < MaxSignals
    /\ inet' = [inet EXCEPT !.calls = Bump(@, "open")]
    /\ UNCHANGED <<scanVars, streamVars, spinVars>>

\* KeyboardInterrupt: no handler of scan_internet takes it
InternetInterrupt ==
    /\ inet.pc \in {"start", "ports", "iter", "finished"}
    /\ inet' = [inet EXCEPT !.pc = "exited", !.outcome = "abort"]
    /\ UNCHANGED <<scanVars, streamVars, spinVars>>

\* After the loop: the file is closed, 'Scan finished: N devices found'
InternetFinish ==
    /\ inet.pc = "finished"
    /\ inet' = [inet EXCEPT !.pc = "exited", !.outcome = "ok"]
    /\ UNCHANGED <<scanVars, streamVars, spinVars>>

\* The crawlers move the scan on: SUBMITTED, RUNNING, DONE
InternetServiceAdvance ==
    /\ inet.pc = "iter"
    /\ inet.svc < Len(Statuses)
    /\ inet' = [inet EXCEPT !.svc = @ + 1]
    /\ UNCHANGED <<scanVars, streamVars, spinVars>>

InternetNext ==
    \/ InternetSubmit
    \/ InternetPorts
    \/ InternetBanner
    \/ InternetAPIError
    \/ InternetSocketTimeout
    \/ InternetException
    \/ InternetEnd
    \/ InternetInterrupt
    \/ InternetFinish
    \/ InternetServiceAdvance

InternetSpecInit == InternetInit /\ ScanParked /\ StreamParked /\ SpinParked

InternetSpec == InternetSpecInit /\ [][InternetNext]_vars

\* Status polls made by scan_internet
InternetPolls == inet.calls.poll738 + inet.calls.poll747

\* C31: in scan_internet for a port outside the official list, the wait loop is
\* completed only when a status poll made after a timeout or an API error of the
\* channel returns DONE, and it is completed at the first such poll; a record taken
\* or a clean end of the channel never polls the status.  (Otherwise the loop is
\* left only by an error or an interrupt that aborts the command.)
C31_DoneOnlyByPollAfterTimeout ==
    /\ [][ InternetPolls' # InternetPolls =>
              /\ InternetPolls' = InternetPolls + 1
              /\ inet'.counter = inet.counter
              /\ InternetAPIError \/ InternetSocketTimeout ]_vars
    /\ [][ (InternetPolls' = InternetPolls + 1 /\ inet'.status = "DONE") =>
              (inet'.done /\ inet'.pc = "finished") ]_vars
    /\ [][ (inet'.done /\ ~inet.done) =>
              (InternetPolls' = InternetPolls + 1 /\ inet'.status = "DONE") ]_vars
    /\ [][ (inet.pc = "iter" /\ inet'.pc # "iter") =>
              \/ inet'.pc = "finished" /\ inet'.done
              \/ inet'.pc = "exited" /\ inet'.outcome \in {"click_error", "abort"} ]_vars
    /\ []((inet.pc = "iter" /\ InternetPolls >= 1) => (~inet.done /\ inet.status # "DONE"))
    /\ [](inet.pc = "finished" => (inet.done /\ inet.status = "DONE" /\ ~inet.official))

\* the loop was completed by the second poll, after records and a reopened channel
C31_Witness ==
    /\ inet.pc = "finished"
    /\ ~inet.official
    /\ InternetPolls = 2
    /\ inet.calls.open = 2
    /\ inet.counter >= 1

====
